---- MODULE Spec2Model ----
(***************************************************************************)
(* A model of CartPole.py: the angle normalizer, the cart-pole physics     *)
(* integrator, the kernel regression engine and the rollout layer.         *)
(*                                                                         *)
(* Real numbers are fixed-point integers with six decimals (Scale units    *)
(* per 1.0).  np.sin, np.cos, np.exp and np.tanh are computed by series    *)
(* in that arithmetic and are exact at the points that matter here:        *)
(* sin(0) = sin(pi) = 0, cos(0) = 1, cos(pi) = -1, exp(0) = 1.             *)
(* numpy values carry their shape: a scalar, a 1-D array or a 2-D array.   *)
(***************************************************************************)
EXTENDS Integers, Sequences, FiniteSets, TLC

(***************************************************************************)
(* Fixed-point arithmetic                                                  *)
(***************************************************************************)
Half == 10 * 10 * 10
Scale == Half * Half

Abs(x) == IF x < 0 THEN -x ELSE x
Sgn(x) == IF x < 0 THEN -1 ELSE IF x > 0 THEN 1 ELSE 0

\* a * b, both fixed-point, truncated toward zero; the product is split so
\* that no intermediate value leaves 32 bits
FMul(a, b) ==
    LET x == IF a < 0 THEN -a ELSE a
        y == IF b < 0 THEN -b ELSE b
        xh == x \div Half
        xl == x % Half
        yh == y \div Half
        yl == y % Half
        p == xh * yh + (xh * yl + xl * yh) \div Half + (xl * yl) \div Scale
    IN  IF (a < 0) = (b < 0) THEN p ELSE -p

RECURSIVE FracDigits(_, _, _)
\* the first n decimal digits of r / b, for 0 <= r < b
FracDigits(r, b, n) ==
    IF n = 0 THEN 0
    ELSE LET q == (r * 10) \div b
             rest == FracDigits((r * 10) % b, b, n - 1)
             p == IF n = 1 THEN 1 ELSE IF n = 2 THEN 10 ELSE IF n = 3 THEN 100
                  ELSE IF n = 4 THEN 1000 ELSE IF n = 5 THEN 10000 ELSE 100000
         IN  q * p + rest

\* a / b, both fixed-point, b # 0, truncated toward zero (long division)
FDiv(a, b) ==
    LET x == Abs(a)
        y == Abs(b)
    IN  (Sgn(a) * Sgn(b)) * ((x \div y) * Scale + FracDigits(x % y, y, 6))

FSq(a) == FMul(a, a)

\* an integer as a fixed-point number
Fix(n) == n * Scale

(***************************************************************************)
(* np.pi, np.sin, np.cos, np.exp, np.tanh                                  *)
(***************************************************************************)
PI == 3141592
TWO_PI == 2 * PI
HALF_PI == PI \div 2

\* x reduced into [-PI, PI] by whole turns
Wrap(x) ==
    LET r == x % TWO_PI
    IN  IF r > PI THEN r - TWO_PI ELSE r

\* sin on [0, PI/2]: x - x^3/3! + x^5/5! - ... - x^11/11!
SinSeries(x) ==
    LET x2 == FMul(x, x)
        t3 == FMul(x, x2) \div 6
        t5 == FMul(t3, x2) \div 20
        t7 == FMul(t5, x2) \div 42
        t9 == FMul(t7, x2) \div 72
        t11 == FMul(t9, x2) \div 110
    IN  x - t3 + t5 - t7 + t9 - t11

\* cos on [0, PI/2]: 1 - x^2/2! + x^4/4! - ... + x^12/12!
CosSeries(x) ==
    LET x2 == FMul(x, x)
        t2 == x2 \div 2
        t4 == FMul(t2, x2) \div 12
        t6 == FMul(t4, x2) \div 30
        t8 == FMul(t6, x2) \div 56
        t10 == FMul(t8, x2) \div 90
        t12 == FMul(t10, x2) \div 132
    IN  Scale - t2 + t4 - t6 + t8 - t10 + t12

\* sin on [0, PI], by sin(PI - a) = sin(a)
SinHalfTurn(a) == IF a > HALF_PI THEN SinSeries(PI - a) ELSE SinSeries(a)
\* sin on [-PI, PI], by sin(-w) = -sin(w)
SinWrapped(w) == Sgn(w) * SinHalfTurn(Abs(w))

Sin(x) == SinWrapped(Wrap(x))

\* cos on [0, PI], by cos(PI - a) = -cos(a)
CosHalfTurn(a) == IF a > HALF_PI THEN -CosSeries(PI - a) ELSE CosSeries(a)

Cos(x) == CosHalfTurn(Abs(Wrap(x)))

RECURSIVE PowInvE(_)
\* e^(-n) for a natural n, 1/e being 0.367879
PowInvE(n) == IF n = 0 THEN Scale ELSE FMul(367879, PowInvE(n - 1))

\* e^(-f) for 0 <= f < 1: the series 1 - f + f^2/2! - ... + f^10/10!
ExpNegSeries(f) ==
    LET t2 == FMul(f, f) \div 2
        t3 == FMul(t2, f) \div 3
        t4 == FMul(t3, f) \div 4
        t5 == FMul(t4, f) \div 5
        t6 == FMul(t5, f) \div 6
        t7 == FMul(t6, f) \div 7
        t8 == FMul(t7, f) \div 8
        t9 == FMul(t8, f) \div 9
        t10 == FMul(t9, f) \div 10
    IN  Scale - f + t2 - t3 + t4 - t5 + t6 - t7 + t8 - t9 + t10

\* np.exp(-y) for y >= 0
ExpNeg(y) ==
    IF y \div Scale >= 14 THEN 0   \* e^(-14) is below the last decimal
    ELSE FMul(PowInvE(y \div Scale), ExpNegSeries(y % Scale))

\* np.tanh(x) = sgn(x) * (1 - e^(-2|x|)) / (1 + e^(-2|x|))
Tanh(x) ==
    LET e == ExpNeg(2 * Abs(x))
    IN  Sgn(x) * FDiv(Scale - e, Scale + e)

(***************************************************************************)
(* State                                                                   *)
(***************************************************************************)
VARIABLES
    theta_in,      \* _remap_angle: the argument of the call in progress
    theta,         \* _remap_angle: the local theta
    remap_pc,      \* _remap_angle: "idle", "loop_up", "loop_down", "returned"
    remap_iters,   \* _remap_angle: loop bodies run by the call (history)
    cp,            \* a CartPole object: its four state fields
    cp_start,      \* CartPole: the state the last reset or setState left (history)
    cp_actions,    \* CartPole: the actions performed since then (history)
    cp_terminate,  \* CartPole: how the last call of terminate ended
    pa,            \* performAction: the call in progress, its force and the
                   \* substeps it has made
    reg,           \* the last call of kernel, predict or train_alpha: its
                   \* arguments, what it computed and how it ended
    roll           \* the last call of move_cart or project_x_using_model:
                   \* its arguments and how it ended

angleVars == <<theta_in, theta, remap_pc, remap_iters>>
cpVars == <<cp, cp_start, cp_actions, cp_terminate, pa>>
regVars == <<reg>>
rollVars == <<roll>>
vars == <<angleVars, cpVars, regVars, rollVars>>

\* no call of kernel, predict or train_alpha has been made
RegIdle == reg = [op |-> "none"]

\* no call of move_cart or project_x_using_model has been made
RollIdle == roll = [op |-> "none"]

\* no call of _remap_angle has been made
AngleIdle ==
    /\ theta_in = 0
    /\ theta = 0
    /\ remap_pc = "idle"
    /\ remap_iters = 0

(***************************************************************************)
(* _remap_angle, remap_angle (lines 12-20)                                 *)
(***************************************************************************)
MaxHalfTurns == 9
ThetaOffsets == {-1, 0, 1}
\* the angles a call is made with: every multiple of pi/2 up to
\* MaxHalfTurns quarter turns, and its two neighbours
Thetas == {h * HALF_PI + e : h \in -MaxHalfTurns..MaxHalfTurns, e \in ThetaOffsets}

\* a faulty line 17: half a turn is added
RemapAddHalfTurn(t) == t + PI
\* line 17: theta += 2. * np.pi
RemapAdd(t) == t + TWO_PI

\* a faulty line 19: half a turn is subtracted
RemapSubHalfTurn(t) == t - PI
\* line 19: theta -= 2. * np.pi
RemapSub(t) == t - TWO_PI

RECURSIVE RemapDown(_)
\* lines 18-19
RemapDown(t) == IF t > PI THEN RemapDown(RemapSub(t)) ELSE t

RECURSIVE RemapUp(_)
\* lines 16-17
RemapUp(t) == IF t < -PI THEN RemapUp(RemapAdd(t)) ELSE t

\* the function as a whole: the value it returns
_remap_angle(t) == RemapDown(RemapUp(t))

remap_angle(t) == _remap_angle(t)

(***************************************************************************)
(* class CartPole (lines 30-132)                                           *)
(***************************************************************************)
pole_length == 500000
pole_mass == 500000
mu_c == 1000
mu_p == 1000
sim_steps == 50
delta_time == 50000
max_force == 20000000
gravity == 9800000
cart_mass == 500000

State(x, v, a, w) ==
    [cart_location |-> x, cart_velocity |-> v, pole_angle |-> a, pole_velocity |-> w]

\* lines 42-45 and 80-83: the down-hanging pole
DownState == State(0, 0, PI, 0)

\* line 88: force = max_force * tanh(action / max_force)
Force(action) == FMul(max_force, Tanh(FDiv(action, max_force)))

\* line 94: m = 4.0*(cart_mass+pole_mass) - 3.0*pole_mass*(c**2)
MassTerm(c) == 4 * (cart_mass + pole_mass) - FMul(3 * pole_mass, FSq(c))

\* force - self.mu_c*self.cart_velocity, as both accelerations use it
Drive(st, force) == force - FMul(mu_c, st.cart_velocity)

\* the constant prefixes of the products of lines 96-101
LengthMass == FMul(pole_length, pole_mass)
ThreeMassGravity == FMul(3 * pole_mass, gravity)
HalfLengthMass == FMul(FDiv(pole_length, Fix(2)), pole_mass)
TorqueGain == FDiv(6 * (cart_mass + pole_mass), FMul(pole_mass, pole_length))
MassGravity == FMul(pole_mass, gravity)
PoleFriction == FMul(FDiv(Fix(2), pole_length), mu_p)

\* a faulty lines 96-97: the pole's weight does not act on the cart
CartAccelNoCoupling(st, force, s, c, m) ==
    FDiv(2 * (FMul(FMul(LengthMass, FSq(st.pole_velocity)), s) + Drive(st, force)), m)
\* lines 96-97
CartAccel(st, force, s, c, m) ==
    FDiv(2 * (FMul(FMul(LengthMass, FSq(st.pole_velocity)), s) + Drive(st, force))
           - FMul(FMul(ThreeMassGravity, c), s), m)

\* a faulty lines 99-102: the gravity torque is taken with cos for sin
PoleAccelCosTorque(st, force, s, c, m) ==
    FDiv(FMul(-3 * c, FMul(FMul(HalfLengthMass, FSq(st.pole_velocity)), s)
                        + Drive(st, force))
           + FMul(TorqueGain, FMul(MassGravity, c) - FMul(PoleFriction, st.pole_velocity)),
         m)
\* lines 99-102
PoleAccel(st, force, s, c, m) ==
    FDiv(FMul(-3 * c, FMul(FMul(HalfLengthMass, FSq(st.pole_velocity)), s)
                        + Drive(st, force))
           + FMul(TorqueGain, FMul(MassGravity, s) - FMul(PoleFriction, st.pole_velocity)),
         m)

\* line 105: dt = delta_time / float(sim_steps)
Dt == FDiv(delta_time, Fix(sim_steps))

\* a faulty lines 107-110: forward Euler, the angle and the location are
\* moved by the velocities of before the substep
SubStepMoveForwardEuler(st, cart_velocity, pole_velocity) ==
    State(st.cart_location + FMul(Dt, st.cart_velocity), cart_velocity,
          st.pole_angle + FMul(Dt, st.pole_velocity), pole_velocity)
\* lines 104-110: the velocities are updated first, then the angle and the
\* location from the new velocities
SubStepMove(st, cart_velocity, pole_velocity) ==
    State(st.cart_location + FMul(Dt, cart_velocity), cart_velocity,
          st.pole_angle + FMul(Dt, pole_velocity), pole_velocity)

\* lines 96-110, given s, c and m of lines 92-94
SubStepTrig(st, force, s, c, m) ==
    SubStepMove(st, st.cart_velocity + FMul(Dt, CartAccel(st, force, s, c, m)),
                    st.pole_velocity + FMul(Dt, PoleAccel(st, force, s, c, m)))

\* lines 92-110: one pass of the integration loop
SubStep(st, force) ==
    CHOOSE nx \in {SubStepTrig(st, force, s, c, MassTerm(c)) :
                     s \in {Sin(st.pole_angle)}, c \in {Cos(st.pole_angle)}} : TRUE

RECURSIVE Integrate(_, _, _)
\* line 91: for step in range(self.sim_steps); n passes are left.  (The
\* one-element sets make each pass's state a value before the next pass.)
Integrate(st, force, n) ==
    IF n <= 0 THEN st
    ELSE CHOOSE r \in {Integrate(nx, force, n - 1) : nx \in {SubStep(st, force)}} : TRUE

\* lines 86-110: the state performAction(action) leaves
performAction(st, action) == Integrate(st, Force(action), sim_steps)

\* lines 116-117: the state cp.remap_angle() leaves
CpRemapAngle(st) == [st EXCEPT !.pole_angle = _remap_angle(st.pole_angle)]

\* no call of performAction is in progress
NoCall == [pc |-> "idle"]

\* terminate has not been called
NotCalled == [called |-> FALSE]

\* lines 131-132: self.state_range is read, an attribute that __init__
\* (lines 41-67) and the other methods never set; were it set, the result
\* would say whether |cart_location| or |pole_angle| is above its bound
terminate(self) ==
    IF "state_range" \notin DOMAIN self THEN [raised |-> "AttributeError"]
    ELSE [ret |-> \/ Abs(self.cart_location) > self.state_range[1][2]
                  \/ Abs(self.pole_angle) > self.state_range[3][2]]

MaxCalls == 3
\* the states setState is called with: hanging down, 3.0 rad, horizontal,
\* upright and moving
StartStates ==
    { DownState,
      State(0, 0, 3 * Scale, 0),
      State(0, 0, HALF_PI, 0),
      State(Scale, -2 * Scale, 0, 4 * Scale),
      State(0, 0, -PI - Scale, 0) }
\* the actions performAction is called with
Actions == {0, Scale, -4 * Scale}

\* lines 41-45: CartPole()
CpConstructed ==
    /\ cp = DownState
    /\ cp_start = DownState
    /\ cp_actions = <<>>
    /\ cp_terminate = NotCalled
    /\ pa = NoCall

\* lines 79-83
Reset ==
    /\ pa = NoCall
    /\ cp' = DownState
    /\ cp_start' = DownState
    /\ cp_actions' = <<>>
    /\ UNCHANGED <<cp_terminate, pa>>
    /\ UNCHANGED <<angleVars, regVars, rollVars>>

\* lines 69-73
SetState ==
    /\ pa = NoCall
    /\ \E st \in StartStates :
        /\ cp' = st
        /\ cp_start' = st
    /\ cp_actions' = <<>>
    /\ UNCHANGED <<cp_terminate, pa>>
    /\ UNCHANGED <<angleVars, regVars, rollVars>>

\* lines 86-110
PerformAction ==
    /\ Len(cp_actions) < MaxCalls
    /\ \E action \in Actions :
        /\ cp' = performAction(cp, action)
        /\ cp_actions' = Append(cp_actions, action)
    /\ UNCHANGED <<cp_start, cp_terminate, pa>>
    /\ UNCHANGED <<angleVars, regVars, rollVars>>

\* lines 116-117
RemapAngleOfPole ==
    /\ cp' = CpRemapAngle(cp)
    /\ UNCHANGED <<cp_start, cp_actions, cp_terminate, pa>>
    /\ UNCHANGED <<angleVars, regVars, rollVars>>

\* lines 123-132
Terminate ==
    /\ cp_terminate' = terminate(cp)
    /\ UNCHANGED <<cp, cp_start, cp_actions, pa>>
    /\ UNCHANGED <<angleVars, regVars, rollVars>>

InitPhysics ==
    /\ AngleIdle
    /\ CpConstructed
    /\ RegIdle
    /\ RollIdle

NextPhysics ==
    \/ Reset
    \/ SetState
    \/ PerformAction
    \/ RemapAngleOfPole
    \/ Terminate

SpecPhysics == InitPhysics /\ [][NextPhysics]_vars

(***************************************************************************)
(* performAction, substep by substep (lines 86-110)                        *)
(***************************************************************************)
\* lines 86-88: performAction(action) is called and computes force
PerformActionCall ==
    /\ pa = NoCall
    /\ Len(cp_actions) < MaxCalls
    /\ \E action \in Actions :
        /\ pa' = [pc |-> "loop", force |-> Force(action), step |-> 0]
        /\ cp_actions' = Append(cp_actions, action)
    /\ UNCHANGED <<cp, cp_start, cp_terminate>>
    /\ UNCHANGED <<angleVars, regVars, rollVars>>

\* lines 91-110: one pass of for step in range(self.sim_steps)
PerformActionSubstep ==
    /\ pa.pc = "loop"
    /\ pa.step < sim_steps
    /\ cp' = SubStep(cp, pa.force)
    /\ pa' = [pa EXCEPT !.step = @ + 1]
    /\ UNCHANGED <<cp_start, cp_actions, cp_terminate>>
    /\ UNCHANGED <<angleVars, regVars, rollVars>>

\* line 91: range(self.sim_steps) is used up, performAction returns
PerformActionReturn ==
    /\ pa.pc = "loop"
    /\ pa.step >= sim_steps
    /\ pa' = NoCall
    /\ UNCHANGED <<cp, cp_start, cp_actions, cp_terminate>>
    /\ UNCHANGED <<angleVars, regVars, rollVars>>

NextIntegrator ==
    \/ SetState
    \/ PerformActionCall
    \/ PerformActionSubstep
    \/ PerformActionReturn

SpecIntegrator == InitPhysics /\ [][NextIntegrator]_vars

InitAngle ==
    /\ AngleIdle
    /\ CpConstructed
    /\ RegIdle
    /\ RollIdle

\* a call _remap_angle(t)
RemapCall ==
    /\ remap_pc \in {"idle", "returned"}
    /\ \E t \in Thetas :
        /\ theta_in' = t
        /\ theta' = t
    /\ remap_pc' = "loop_up"
    /\ remap_iters' = 0
    /\ UNCHANGED <<cpVars, regVars, rollVars>>

\* lines 16-17: one pass of the first loop
RemapLoopUp ==
    /\ remap_pc = "loop_up"
    /\ theta < -PI
    /\ theta' = RemapAdd(theta)
    /\ remap_iters' = remap_iters + 1
    /\ UNCHANGED <<theta_in, remap_pc>>
    /\ UNCHANGED <<cpVars, regVars, rollVars>>

\* line 16: the first loop's condition is false
RemapUpExit ==
    /\ remap_pc = "loop_up"
    /\ ~(theta < -PI)
    /\ remap_pc' = "loop_down"
    /\ UNCHANGED <<theta_in, theta, remap_iters>>
    /\ UNCHANGED <<cpVars, regVars, rollVars>>

\* lines 18-19: one pass of the second loop
RemapLoopDown ==
    /\ remap_pc = "loop_down"
    /\ theta > PI
    /\ theta' = RemapSub(theta)
    /\ remap_iters' = remap_iters + 1
    /\ UNCHANGED <<theta_in, remap_pc>>
    /\ UNCHANGED <<cpVars, regVars, rollVars>>

\* line 20: return theta
RemapReturn ==
    /\ remap_pc = "loop_down"
    /\ ~(theta > PI)
    /\ remap_pc' = "returned"
    /\ UNCHANGED <<theta_in, theta, remap_iters>>
    /\ UNCHANGED <<cpVars, regVars, rollVars>>

NextAngle ==
    \/ RemapCall
    \/ RemapLoopUp
    \/ RemapUpExit
    \/ RemapLoopDown
    \/ RemapReturn

SpecAngle == InitAngle /\ [][NextAngle]_vars

(***************************************************************************)
(* numpy arrays: a scalar (ndim 0), a 1-D array (ndim 1, v its elements)   *)
(* or a 2-D array (ndim 2, v its rows).  An operation that raises yields   *)
(* [raised |-> the exception].                                             *)
(***************************************************************************)
Arr0(x) == [ndim |-> 0, dtype |-> "float", v |-> x]
Arr1(xs) == [ndim |-> 1, dtype |-> "float", v |-> xs]
Arr2(rows) == [ndim |-> 2, dtype |-> "float", v |-> rows]
Raised(e) == [raised |-> e]
IsRaised(r) == "raised" \in DOMAIN r

\* a.size
Size(a) ==
    IF a.ndim = 0 THEN 1
    ELSE IF a.ndim = 1 THEN Len(a.v)
    ELSE IF Len(a.v) = 0 THEN 0 ELSE Len(a.v) * Len(a.v[1])

\* np.atleast_2d(a), as rows
AtLeast2d(a) ==
    IF a.ndim = 0 THEN << <<a.v>> >> ELSE IF a.ndim = 1 THEN <<a.v>> ELSE a.v

\* the dtype of an array built from a and b
JoinDtype(a, b) ==
    IF a.dtype = "object" \/ b.dtype = "object" THEN "object" ELSE "float"

\* np.vstack((a, b)): both made 2-D, then joined along the rows, which
\* raises ValueError when the row lengths differ
Vstack(a, b) ==
    LET ra == AtLeast2d(a)
        rb == AtLeast2d(b)
    IN  IF Len(ra[1]) # Len(rb[1]) THEN Raised("ValueError")
        ELSE [ndim |-> 2, dtype |-> JoinDtype(a, b), v |-> ra \o rb]

\* a.T
Transpose(a) ==
    IF a.ndim < 2 THEN a
    ELSE [a EXCEPT !.v = [j \in 1..Len(a.v[1]) |-> [i \in 1..Len(a.v) |-> a.v[i][j]]]]

RECURSIVE DotFrom(_, _, _)
\* the sum of u[i] * w[i] over i from k on
DotFrom(u, w, k) ==
    IF k > Len(u) THEN 0 ELSE FMul(u[k], w[k]) + DotFrom(u, w, k + 1)

Column(rows, j) == [i \in 1..Len(rows) |-> rows[i][j]]

\* np.matmul(a, b) for b 2-D: ValueError for a scalar operand and for inner
\* dimensions that differ, TypeError for None elements
Matmul(a, b) ==
    IF a.ndim = 0 \/ b.ndim # 2 THEN Raised("ValueError")
    ELSE LET inner == IF a.ndim = 1 THEN Len(a.v) ELSE Len(a.v[1])
             cols == Len(b.v[1])
         IN  IF inner # Len(b.v) THEN Raised("ValueError")
             ELSE IF a.dtype = "object" THEN Raised("TypeError")
             ELSE IF a.ndim = 1
                  THEN Arr1([j \in 1..cols |-> DotFrom(a.v, Column(b.v, j), 1)])
                  ELSE Arr2([i \in 1..Len(a.v) |->
                                [j \in 1..cols |-> DotFrom(a.v[i], Column(b.v, j), 1)]])

(***************************************************************************)
(* kernel (lines 444-453)                                                  *)
(***************************************************************************)
XDim == 5
\* Python index 2, the pole angle
AngleIndex == 2 + 1

\* the float nan as a kernel value (kernel values proper are in [0, 1])
NaN == 0 - Scale

\* a faulty line 450: the angle is treated like the other components
SquaredNumeratorEuclid(i, d) == FSq(d)
\* line 450: one element of squared_numerator, d being X[i] - X_dash[i]
SquaredNumerator(i, d) ==
    IF i # AngleIndex THEN FSq(d) ELSE FSq(Sin(FDiv(d, Fix(2))))

RECURSIVE SumFrom(_, _)
\* np.sum of xs from its k-th element on
SumFrom(xs, k) == IF k > Len(xs) THEN 0 ELSE xs[k] + SumFrom(xs, k + 1)

\* lines 450-453 for arrays X and X_dash.  np.divide by a zero element of
\* 2*np.square(sigma) does not raise: x/0 is inf, 0/0 is nan; np.sum keeps
\* them, np.exp(-inf) is 0.0 and np.exp(nan) is nan.
KernelValue(num, den) ==
    IF \E i \in 1..XDim : den[i] = 0 /\ num[i] = 0 THEN NaN
    ELSE IF \E i \in 1..XDim : den[i] = 0 THEN 0
    ELSE ExpNeg(SumFrom([i \in 1..XDim |-> FDiv(num[i], den[i])], 1))

kernel(X, X_dash, sigma) ==
    KernelValue([i \in 1..XDim |-> SquaredNumerator(i, X[i] - X_dash[i])],
                [i \in 1..XDim |-> 2 * FSq(sigma[i])])

\* lines 444-453 as called: a Python list X_dash is wrapped as np.array([X_dash])
\* (line 447), X_dash[1] then raises IndexError, the except clause only prints
\* and line 453 reads the unbound squared_numerator
kernelCall(X, X_dash, sigma, dash_is_list) ==
    IF dash_is_list THEN Raised("UnboundLocalError")
    ELSE Arr0(kernel(X, X_dash, sigma))

(***************************************************************************)
(* predict (lines 482-502)                                                 *)
(***************************************************************************)
\* line 483: KnM_test = [None, None]
Placeholder == [ndim |-> 1, dtype |-> "object", v |-> <<"None", "None">>]

\* lines 485-495: KnM_test_row for the basis point X_i
\* a single 5-vector gives a scalar (line 495), a batch one value per row
\* (lines 488-491)
PredictRowOf(x_test, values) ==
    IF Size(x_test) > 4
    THEN IF Size(x_test) % 5 # 0 THEN Raised("AssertionError")
         ELSE IF x_test.ndim = 1 THEN Arr0(values[1])
         ELSE Arr1(values)
    ELSE Raised("UnboundLocalError")

PredictRow(X_i, x_test, sigma) ==
    PredictRowOf(x_test, [j \in 1..Len(AtLeast2d(x_test)) |->
                             kernel(X_i, AtLeast2d(x_test)[j], sigma)])

\* lines 496-499: try: vstack, except: KnM_test = KnM_test_row
PredictStackOr(stacked, KnM_test_row) ==
    IF IsRaised(stacked) THEN KnM_test_row ELSE stacked

PredictStack(KnM_test, KnM_test_row) ==
    IF IsRaised(KnM_test_row) THEN KnM_test_row
    ELSE PredictStackOr(Vstack(KnM_test, KnM_test_row), KnM_test_row)

RECURSIVE PredictLoop(_, _, _, _, _)
\* lines 484-499: the loop from the k-th basis point on
PredictLoop(KnM_test, k, x_test, X_i_vals, sigma) ==
    IF IsRaised(KnM_test) \/ k > Len(X_i_vals) THEN KnM_test
    ELSE PredictLoop(PredictStack(KnM_test, PredictRow(X_i_vals[k], x_test, sigma)),
                     k + 1, x_test, X_i_vals, sigma)

\* the KnM_test line 500 reads
PredictKernelMatrix(x_test, X_i_vals, sigma) ==
    PredictLoop(Placeholder, 1, x_test, X_i_vals, sigma)

\* line 500: predictions = np.matmul(KnM_test.T, alpha)
PredictMatmul(KnM_test, alpha) ==
    IF IsRaised(KnM_test) THEN KnM_test
    ELSE IF KnM_test.ndim = 1 /\ KnM_test.dtype = "object"
    THEN Raised("AttributeError")  \* the list of line 483 has no .T
    ELSE Matmul(Transpose(KnM_test), alpha)

\* lines 482-502
predict(x_test, alpha, X_i_vals, sigma) ==
    PredictMatmul(PredictKernelMatrix(x_test, X_i_vals, sigma), alpha)

(***************************************************************************)
(* generate_K, train_alpha (lines 455-480)                                 *)
(***************************************************************************)
\* line 459: K_row for x_location, M holding 0-based row numbers of X
KRow(x_location, X, M, sigma) ==
    Arr1([j \in 1..Len(M) |-> kernel(x_location, X[M[j] + 1], sigma)])

RECURSIVE GenerateKLoop(_, _, _, _, _)
\* lines 458-464 from the k-th row of X on; KnM is bound after the first row
GenerateKLoop(KnM, k, X, M, sigma) ==
    IF k > Len(X) THEN KnM
    ELSE GenerateKLoop(IF k = 1 THEN KRow(X[k], X, M, sigma)
                       ELSE Vstack(KnM, KRow(X[k], X, M, sigma)),
                       k + 1, X, M, sigma)

\* lines 455-466
generate_K(X, M, sigma) ==
    IF \E j \in 1..Len(M) : M[j] + 1 > Len(X) THEN Raised("IndexError")
    ELSE IF Len(X) = 0 THEN Raised("UnboundLocalError")
    ELSE GenerateKLoop(Arr1(<<>>), 1, X, M, sigma)

HasNaN(a) ==
    IF a.ndim = 1 THEN \E j \in 1..Len(a.v) : a.v[j] = NaN
    ELSE \E i \in 1..Len(a.v) : \E j \in 1..Len(a.v[i]) : a.v[i][j] = NaN

\* line 470: the exclusive upper end of the drawn row numbers,
\* n*train_proportion with its fraction dropped
DrawHigh(n, train_proportion) == FMul(Fix(n), train_proportion) \div Scale

\* what np.linalg.lstsq may do with nan in its operands: LAPACK either
\* reports that the SVD did not converge (LinAlgError) or returns nan
LstsqOnNaN == {"LinAlgError", "nan"}

\* lines 471-480 for drawn row numbers M_vals and the solver's way with nan.
\* The solution's values are the solver's (np.linalg.lstsq, not in this
\* repository): alpha is kept as its shape and whether it holds nan.
\* lines 473-480: alpha from the two kernel matrices
TrainSolve(X_i_vals, KnM_, KMM_, y_train, on_nan) ==
    IF HasNaN(KnM_) \/ HasNaN(KMM_)
    THEN IF on_nan = "LinAlgError" THEN Raised("LinAlgError")
         ELSE [alpha |-> [rows |-> Len(X_i_vals), cols |-> Len(y_train[1]),
                          nan |-> TRUE],
               X_i_vals |-> X_i_vals]
    ELSE IF IsRaised(Matmul(Transpose(KnM_), Arr2(y_train)))
    THEN Matmul(Transpose(KnM_), Arr2(y_train))
    ELSE [alpha |-> [rows |-> Len(X_i_vals), cols |-> Len(y_train[1]),
                     nan |-> FALSE],
          X_i_vals |-> X_i_vals]

\* the rows of x_train numbered by M_vals (line 471)
RowsAt(x_train, M_vals) == [j \in 1..Len(M_vals) |-> x_train[M_vals[j] + 1]]

train_alpha(x_train, y_train, M_vals, sigma, on_nan) ==
    IF \E j \in 1..Len(M_vals) : M_vals[j] + 1 > Len(x_train)
    THEN Raised("IndexError")
    ELSE TrainSolve(RowsAt(x_train, M_vals),
                    generate_K(x_train, M_vals, sigma),
                    generate_K(RowsAt(x_train, M_vals),
                               [j \in 1..Len(M_vals) |-> j - 1], sigma),
                    y_train, on_nan)

(***************************************************************************)
(* Calls of kernel, predict and train_alpha                                *)
(***************************************************************************)
Vec(a, b, c, d, e) == <<a, b, c, d, e>>
ShiftAngle(x, d) == [x EXCEPT ![AngleIndex] = @ + d]

\* the points kernel is called with: two points, each also with its angle
\* moved by a whole turn either way, by half a turn and by one radian
BasePoints == {Vec(0, 0, 0, 0, 0), Vec(Scale, -Scale, Scale \div 2, 2 * Scale, -Scale)}
AngleShifts == {0, TWO_PI, -TWO_PI, PI, Scale}
KernelPoints == {ShiftAngle(x, d) : x \in BasePoints, d \in AngleShifts}

\* bandwidths without a zero, and with one
GoodSigmas == {Vec(Scale, Scale, Scale, Scale, Scale),
               Vec(Scale \div 2, 2 * Scale, Scale, Scale, 3 * Scale)}
ZeroSigmas == {Vec(Scale, Scale, 0, Scale, Scale), Vec(0, Scale, Scale, Scale, Scale)}

HasZero(sigma) == \E i \in 1..XDim : sigma[i] = 0

RECURSIVE SeqsOf(_, _)
\* the sequences of length n over S
SeqsOf(S, n) ==
    IF n = 0 THEN {<<>>}
    ELSE {Append(q, x) : q \in SeqsOf(S, n - 1), x \in S}

MaxM == 3
MaxBasis == 3
QueryRows == {Vec(0, 0, 0, 0, 0), Vec(Scale, 0, Scale \div 2, 0, -Scale)}
BasisRows == {Vec(0, 0, 0, 0, 0), Vec(0, Scale, PI, 0, Scale)}

\* x_test: a single 5-vector, or a batch of M rows
XTests ==
    {Arr1(q) : q \in QueryRows} \cup
    UNION {{Arr2(rows) : rows \in SeqsOf(QueryRows, M)} : M \in 1..MaxM}

\* the weights predict is called with: one row per basis point, one column
\* per output
OutDims == {4, 5}
AlphaFor(nb, cols) ==
    Arr2([i \in 1..nb |-> [j \in 1..cols |-> (i - j) * (Scale \div 2)]])

\* a call that has not run yet
Pending == [pending |-> TRUE]
IsPending(r) == "pending" \in DOMAIN r

\* the calls of kernel(X, X_dash, sigma)
KernelCalls ==
    {[op |-> "kernel", X |-> X, X_dash |-> X_dash, sigma |-> sigma,
      dash_is_list |-> dash_is_list, out |-> Pending] :
        X \in KernelPoints, X_dash \in KernelPoints, sigma \in GoodSigmas \cup ZeroSigmas,
        dash_is_list \in BOOLEAN}

\* the calls of predict(x_test, alpha, X_i_vals, sigma)
PredictCalls ==
    UNION {{[op |-> "predict", x_test |-> x_test, X_i_vals |-> X_i_vals,
             alpha |-> AlphaFor(nb, cols), sigma |-> sigma,
             KnM_test |-> Pending, out |-> Pending] :
                x_test \in XTests, X_i_vals \in SeqsOf(BasisRows, nb),
                cols \in OutDims, sigma \in GoodSigmas} : nb \in 1..MaxBasis}

MaxTrain == 3
TrainRows == <<Vec(0, 0, 0, 0, 0), Vec(0, Scale, PI, 0, Scale),
               Vec(Scale, 0, Scale \div 2, 0, -Scale), Vec(0, 0, Scale, Scale, 0)>>
\* the training set of N rows, and its deltas
XTrain(N) == [i \in 1..N |-> TrainRows[((i - 1) % Len(TrainRows)) + 1]]
YTrain(N) == [i \in 1..N |-> [j \in 1..4 |-> i * (Scale \div 10)]]
TrainProportions == {(8 * Scale) \div 10, Scale}

\* the calls of train_alpha(x_train, y_train, no_RBC, sigma, n, train_proportion)
TrainCalls ==
    {[op |-> "train_alpha", x_train |-> XTrain(N), y_train |-> YTrain(N),
      no_RBC |-> no_RBC, sigma |-> sigma, n |-> n,
      train_proportion |-> train_proportion, M_vals |-> Pending, out |-> Pending] :
        N \in 2..MaxTrain, n \in 2..(MaxTrain + 2), no_RBC \in 1..2,
        train_proportion \in TrainProportions, sigma \in GoodSigmas \cup ZeroSigmas}

\* lines 444-453: kernel runs
KernelCall ==
    /\ reg.op = "kernel"
    /\ IsPending(reg.out)
    /\ reg' = [reg EXCEPT !.out = kernelCall(reg.X, reg.X_dash, reg.sigma,
                                             reg.dash_is_list)]
    /\ UNCHANGED <<angleVars, cpVars, rollVars>>

\* lines 482-502: predict runs
Predict ==
    /\ reg.op = "predict"
    /\ IsPending(reg.out)
    /\ \E KnM_test \in {PredictKernelMatrix(reg.x_test, reg.X_i_vals, reg.sigma)} :
          reg' = [reg EXCEPT !.KnM_test = KnM_test,
                             !.out = PredictMatmul(KnM_test, reg.alpha)]
    /\ UNCHANGED <<angleVars, cpVars, rollVars>>

\* lines 468-480: train_alpha runs; line 470 draws M_vals
TrainAlpha ==
    /\ reg.op = "train_alpha"
    /\ IsPending(reg.out)
    /\ \E M_vals \in SeqsOf(0..(DrawHigh(reg.n, reg.train_proportion) - 1), reg.no_RBC),
          on_nan \in LstsqOnNaN :
        reg' = [reg EXCEPT
                  !.M_vals = M_vals,
                  !.out = train_alpha(reg.x_train, reg.y_train, M_vals,
                                      reg.sigma, on_nan)]
    /\ UNCHANGED <<angleVars, cpVars, rollVars>>

InitRegression ==
    /\ AngleIdle
    /\ CpConstructed
    /\ reg \in KernelCalls \cup PredictCalls \cup TrainCalls
    /\ RollIdle

NextRegression ==
    \/ KernelCall
    \/ Predict
    \/ TrainAlpha

SpecRegression == InitRegression /\ [][NextRegression]_vars

(***************************************************************************)
(* move_cart (lines 167-244)                                               *)
(***************************************************************************)
\* a name that has not been assigned yet
Unbound == [unbound |-> TRUE]
IsUnbound(a) == "unbound" \in DOMAIN a

\* [cart_location, cart_velocity, pole_angle, pole_velocity, action]
XOf(st, action) ==
    <<st.cart_location, st.cart_velocity, st.pole_angle, st.pole_velocity, action>>

\* line 204: the four state fields of an x
StateOf(x) == State(x[1], x[2], x[3], x[4])
\* line 204: its action
ActionOf(x) == x[5]

\* a noise_function that moves every component by var
ShiftBy(x, var) == [i \in 1..Len(x) |-> x[i] + var]

\* lines 203, 211-212: the noise_function is applied when noisy_dynamics
Noised(x, call) ==
    IF call.noisy_dynamics THEN ShiftBy(x, call.var) ELSE x

\* lines 209-210: performAction, then cp.remap_angle() when remap_angle
Advance(st, action, do_remap) ==
    IF do_remap THEN CpRemapAngle(performAction(st, action))
    ELSE performAction(st, action)

\* lines 214-217: try: vstack, except: x_history = (initial_x, the row)
MoveStack(x_history, row, initial_x) ==
    IF IsUnbound(x_history) THEN Arr2(<<initial_x, row>>)
    ELSE Vstack(x_history, Arr1(row))

\* lines 243-244: len(x_history) reads an unbound name when the loop never
\* ran; the whole x_history is returned only when it has 5 rows
MoveReturn(x_history) ==
    IF IsUnbound(x_history) THEN Raised("UnboundLocalError")
    ELSE IF Len(x_history.v) # 5
    THEN [ret |-> Arr1(x_history.v[Len(x_history.v)]), x_history |-> x_history]
    ELSE [ret |-> x_history, x_history |-> x_history]

RECURSIVE MoveLoop(_, _, _, _)
\* lines 207-217: the loop from the given pass on, x being the cart's
\* state and the action before the pass
MoveLoop(x, x_history, step, call) ==
    IF step >= call.steps THEN MoveReturn(x_history)
    ELSE CHOOSE r \in
           {MoveLoop(nx, MoveStack(x_history, nx, call.initial_x), step + 1, call) :
              nx \in {Noised(XOf(Advance(StateOf(x), ActionOf(x), call.remap_angle),
                                 ActionOf(x)), call)}} : TRUE

\* lines 194-244
move_cart(call) ==
    IF call.steps = 4 THEN Raised("AssertionError")
    ELSE IF call.noisy_dynamics /\ ~call.has_noise_function
    THEN Raised("AttributeError")
    ELSE IF call.noisy_dynamics /\ ~call.has_var THEN Raised("KeyError")
    ELSE MoveLoop(Noised(call.initial_x, call), Unbound, 0, call)

(***************************************************************************)
(* project_x_using_model (lines 328-355)                                   *)
(***************************************************************************)
\* line 332: pred_ = None
NoneValue == [none |-> TRUE]
IsNone(a) == "none" \in DOMAIN a

\* a + b elementwise for arrays of one row each (a 1-D array or a 2-D
\* array of one row), which raises ValueError when the lengths differ
AddRows(a, b) ==
    IF IsRaised(b) THEN b
    ELSE IF Len(AtLeast2d(a)[1]) # Len(AtLeast2d(b)[1]) THEN Raised("ValueError")
    ELSE IF a.ndim = 2 \/ b.ndim = 2
    THEN Arr2(<<[i \in 1..Len(AtLeast2d(a)[1]) |->
                    AtLeast2d(a)[1][i] + AtLeast2d(b)[1][i]]>>)
    ELSE Arr1([i \in 1..Len(a.v) |-> a.v[i] + b.v[i]])

\* model(x, kwargs['alpha'], kwargs['X_i_vals'], kwargs['sigma']), the model
\* being predict
Model(x, call) == predict(x, call.alpha, call.X_i_vals, call.sigma)

\* x + model(x, ...)
Predicted(x, call) == AddRows(x, Model(x, call))

\* a faulty lines 339-343: every pass predicts from the previous prediction
NextPredCompoundOnly(pred_, x_, call) ==
    IF IsNone(pred_) THEN pred_ ELSE Predicted(pred_, call)
\* lines 339-343: pred_ for the pass, None on the first pass
NextPred(pred_, x_, call) ==
    IF IsNone(pred_) THEN pred_
    ELSE IF call.compound_predictions THEN Predicted(pred_, call)
    ELSE Predicted(Arr1(x_), call)

\* all(x) of Python: no component is zero
All(x) == \A i \in 1..Len(x) : x[i] # 0

\* the two histories
Histories(prediction_history, y_history) ==
    [prediction_history |-> prediction_history, y_history |-> y_history]

\* a faulty lines 349-351: the histories start with the first pass's rows
ProjectRestartWithoutInitial(x_, y_, pred_) ==
    IF IsRaised(pred_) THEN pred_
    ELSE Histories(Arr2(AtLeast2d(pred_)), Arr2(<<y_>>)) @@ [pred_ |-> pred_]
\* lines 349-351: pred_ is x_ + model(x_), and the histories start over
\* from x_
ProjectRestart(x_, y_, pred_) ==
    IF IsRaised(pred_) THEN pred_
    ELSE Histories(Vstack(Arr1(x_), pred_), Vstack(Arr1(x_), Arr1(y_)))
            @@ [pred_ |-> pred_]

\* lines 345-351: try: both np.vstack, except: assert, then start over.  The
\* try fails on the first pass, where prediction_history is unbound.
ProjectStack(h, x_, y_, pred_, call) ==
    IF IsRaised(pred_) THEN pred_
    ELSE IF IsUnbound(h) \/ IsNone(pred_)
    THEN IF All(x_) # All(call.initial_x) THEN Raised("AssertionError")
         ELSE ProjectRestart(x_, y_, Predicted(Arr1(x_), call))
    ELSE Histories(Vstack(h.prediction_history, pred_),
                   Vstack(h.y_history, Arr1(y_))) @@ [pred_ |-> pred_]

\* line 355: the names are unbound when the loop never ran
ProjectReturn(h) ==
    IF IsUnbound(h) THEN Raised("UnboundLocalError")
    ELSE Histories(h.prediction_history, h.y_history)

RECURSIVE ProjectLoop(_, _, _, _)
\* lines 334-353: the loop from the given pass on; h holds pred_ and the
\* two histories once they are bound
ProjectLoop(x_, h, step, call) ==
    IF IsRaised(h) THEN h
    ELSE IF step >= call.steps THEN ProjectReturn(h)
    ELSE CHOOSE r \in
           {ProjectLoop(y_,
                        ProjectStack(h, x_, y_,
                                     NextPred(IF IsUnbound(h) THEN NoneValue
                                              ELSE h.pred_, x_, call), call),
                        step + 1, call) :
              y_ \in {XOf(Advance(StateOf(x_), ActionOf(x_), call.remap_angle),
                          ActionOf(x_))}} : TRUE

\* lines 328-355
project_x_using_model(call) == ProjectLoop(call.initial_x, Unbound, 0, call)

(***************************************************************************)
(* Calls of move_cart and project_x_using_model                            *)
(***************************************************************************)
MaxSteps == 5
\* initial_x: at rest at 3.0 rad with no action, and moving with an action
InitialXs == {Vec(0, 0, 3 * Scale, 0, 0),
              Vec(Scale \div 10, -Scale, 4 * Scale, Scale \div 2, 2 * Scale)}

\* the var given to the noise_function
NoiseVar == Scale \div 100

\* the calls of move_cart(initial_x, steps, remap_angle, noisy_dynamics, **kwargs)
MoveCartCalls ==
    {[op |-> "move_cart", initial_x |-> initial_x, steps |-> steps,
      remap_angle |-> do_remap, noisy_dynamics |-> noisy[1],
      has_noise_function |-> noisy[2], has_var |-> noisy[3], var |-> NoiseVar,
      out |-> Pending] :
        initial_x \in InitialXs, steps \in 0..MaxSteps, do_remap \in BOOLEAN,
        noisy \in {<<FALSE, FALSE, FALSE>>, <<TRUE, FALSE, FALSE>>,
                   <<TRUE, TRUE, FALSE>>, <<TRUE, TRUE, TRUE>>}}

\* the weights of the models: one row per basis point, five columns
ModelAlpha(nb) ==
    Arr2([i \in 1..nb |-> [j \in 1..XDim |-> (i - j) * (Scale \div 20)]])
\* the basis points of the models
ModelBasis(nb) == [i \in 1..nb |-> TrainRows[i]]

\* the calls of project_x_using_model(initial_x, model, steps, remap_angle,
\* compound_predictions, alpha, X_i_vals, sigma)
ProjectCalls ==
    {[op |-> "project_x_using_model", initial_x |-> initial_x, steps |-> steps,
      remap_angle |-> do_remap, compound_predictions |-> compound,
      alpha |-> ModelAlpha(nb), X_i_vals |-> ModelBasis(nb),
      sigma |-> Vec(Scale, Scale, Scale, Scale, Scale), out |-> Pending] :
        initial_x \in InitialXs, steps \in 0..MaxSteps, do_remap \in BOOLEAN,
        compound \in BOOLEAN, nb \in {2, 3}}

\* lines 167-244: move_cart runs
MoveCart ==
    /\ roll.op = "move_cart"
    /\ IsPending(roll.out)
    /\ roll' = [roll EXCEPT !.out = move_cart(roll)]
    /\ UNCHANGED <<angleVars, cpVars, regVars>>

\* lines 328-355: project_x_using_model runs
ProjectXUsingModel ==
    /\ roll.op = "project_x_using_model"
    /\ IsPending(roll.out)
    /\ roll' = [roll EXCEPT !.out = project_x_using_model(roll)]
    /\ UNCHANGED <<angleVars, cpVars, regVars>>

InitRollout ==
    /\ AngleIdle
    /\ CpConstructed
    /\ RegIdle
    /\ roll \in MoveCartCalls \cup ProjectCalls

NextRollout ==
    \/ MoveCart
    \/ ProjectXUsingModel

SpecRollout == InitRollout /\ [][NextRollout]_vars

(***************************************************************************)
(* loss, _loss, the policies and loss_after_steps (lines 27-28, 553-631)   *)
(***************************************************************************)
RECURSIVE FlattenFrom(_, _)
\* the rows from the k-th on, one after the other
FlattenFrom(rows, k) ==
    IF k > Len(rows) THEN <<>> ELSE rows[k] \o FlattenFrom(rows, k + 1)

\* a.flatten(), as a sequence
Flatten(a) ==
    IF a.ndim = 0 THEN <<a.v>> ELSE IF a.ndim = 1 THEN a.v ELSE FlattenFrom(a.v, 1)

\* xs[:-1] of a sequence
ButLast(xs) == SubSeq(xs, 1, Len(xs) - 1)

\* line 609: x_[-1] = action_.  On a 1-D x_ the last element is assigned, on
\* a 2-D x_ the whole last row
SetLast(x_, action_) ==
    IF x_.ndim = 1 THEN [x_ EXCEPT !.v[Len(x_.v)] = action_]
    ELSE [x_ EXCEPT !.v[Len(x_.v)] = [j \in 1..Len(x_.v[Len(x_.v)]) |-> action_]]

\* line 577: state[:4]
FirstFour(xs) == SubSeq(xs, 1, IF Len(xs) < 4 THEN Len(xs) ELSE 4)

\* lines 571-582, 27-28: loss(state, sig_) for a flat state; sig_ is a
\* scalar or has one value per component of state[:4]
LossOf(state, sig_) ==
    IF sig_.ndim = 1 /\ Len(sig_.v) # Len(FirstFour(state)) THEN Raised("ValueError")
    ELSE Arr0(Scale - ExpNeg(
             SumFrom([i \in 1..Len(FirstFour(state)) |->
                        FSq(FDiv(state[i], IF sig_.ndim = 0 THEN sig_.v ELSE sig_.v[i]))],
                     1) \div 2))

\* line 595: 20 * np.tanh(np.dot(p, x_.flatten()[:-1]) / 20)
LinearPolicy(p, seen) ==
    IF Len(p) # Len(seen) THEN Raised("ValueError")
    ELSE Arr0(FMul(Fix(20), Tanh(FDiv(DotFrom(p, seen, 1), Fix(20)))))

\* lines 558-566: np.matmul(np.matmul(diff_, W), diff_.T) for a 1-D diff_
QuadraticForm(d, W) ==
    DotFrom([k \in 1..Len(d) |-> DotFrom(d, Column(W, k), 1)], d, 1)

\* lines 553-567: policy_exponent(X, X_i, W) for a 1-D X of four elements
policy_exponent(X, X_i, W) ==
    ExpNeg(QuadraticForm([j \in 1..4 |-> X[j] - X_i[j]], W) \div 2)

\* lines 568-570: non_linear_policy(w_i, X, X_i_vals, W), X being x_[:-1]:
\* of a 1-D x_ its first four elements, of a 2-D x_ of one row no row at
\* all, from which X_i cannot be subtracted
non_linear_policy(w_i, x_, X_i_vals, W) ==
    IF x_.ndim # 1 THEN Raised("ValueError")
    ELSE Arr0(SumFrom([i \in 1..Len(w_i) |->
                         FMul(w_i[i], policy_exponent(ButLast(x_.v), X_i_vals[i], W))], 1))

\* lines 595-608: action_
PolicyAction(x_, call) ==
    IF call.linear THEN LinearPolicy(call.p, ButLast(Flatten(x_)))
    ELSE non_linear_policy(call.w_i, x_, call.policy_X_i_vals, call.W)

\* line 618: np.array(move_cart(x_, steps=1, display_plots=False, remap_angle=True))
MoveOneStep(x_) ==
    IF x_.ndim # 1 THEN Raised("ValueError")
    ELSE move_cart([initial_x |-> x_.v, steps |-> 1, remap_angle |-> TRUE,
                    noisy_dynamics |-> FALSE, has_noise_function |-> FALSE,
                    has_var |-> FALSE, var |-> 0]).ret

\* lines 611-618: y_
NextY(x_, call) ==
    IF call.model_predictive_control
    THEN predict(x_, call.alpha, call.X_i_vals, call.sigma)
    ELSE MoveOneStep(x_)

\* lines 589-592: sig_list, kwargs_['sig'] being a list
SigList(call) ==
    IF call.linear
    THEN [i \in 1..(Len(call.sig) * call.steps) |-> call.sig[((i - 1) % Len(call.sig)) + 1]]
    ELSE [i \in 1..call.steps |->
            Arr0(IF call.steps = 1 THEN call.sig_start
                 ELSE call.sig_start
                        + ((i - 1) * (call.sig_end - call.sig_start)) \div (call.steps - 1))]

\* lines 621-622: cumulative_loss += loss(y_.flatten(), sig_); x_ = y_.copy();
\* a pass is recorded by the state the policy was given, the action it
\* chose, the x_ handed to the model, the model's y_ and its loss
LossAdd(r, seen, action_, x_, y_, loss_) ==
    IF IsRaised(y_) THEN y_
    ELSE IF IsRaised(loss_) THEN loss_
    ELSE [cumulative_loss |-> r.cumulative_loss + loss_.v,
          passes |-> Append(r.passes, [seen |-> seen, action_ |-> action_, x_ |-> x_,
                                       y_ |-> y_, loss_ |-> loss_.v])]

RECURSIVE LossLoop(_, _, _, _)
RECURSIVE LossPass(_, _, _, _, _)
\* lines 609-622: the rest of a pass, action_ being chosen
LossPass(x_, action_, r, i, call) ==
    IF IsRaised(action_) THEN action_
    ELSE CHOOSE out \in
           {LossLoop(y_, LossAdd(r, ButLast(Flatten(x_)), action_.v,
                                 SetLast(x_, action_.v), y_,
                                 IF IsRaised(y_) THEN y_
                                 ELSE LossOf(Flatten(y_), SigList(call)[i])),
                     i + 1, call) :
              y_ \in {NextY(SetLast(x_, action_.v), call)}} : TRUE

\* lines 594-622 from the i-th element of sig_list on; r holds the
\* cumulative loss and the passes made
LossLoop(x_, r, i, call) ==
    IF IsRaised(r) \/ i > Len(SigList(call)) THEN r
    ELSE LossPass(x_, PolicyAction(x_, call), r, i, call)

\* lines 586-588: x_, a flat copy of x_row with its angle remapped
LossStart(x_row) == Arr1([x_row EXCEPT ![AngleIndex] = remap_angle(@)])

\* lines 584-631
loss_after_steps(call) ==
    LossLoop(LossStart(call.x_row), [cumulative_loss |-> 0, passes |-> <<>>], 1, call)

\* the calls of loss_after_steps(x_row, kwargs_, steps): a linear policy p or
\* a non-linear one (w_i, X_i_vals, W), the cart or predict as the model
LossCalls ==
    {[op |-> "loss_after_steps", x_row |-> x_row, steps |-> steps,
      linear |-> linear, p |-> p,
      sig |-> <<Arr1(<<2 * Scale, 2 * Scale, 2 * Scale, 2 * Scale>>)>>,
      sig_start |-> 2 * Scale, sig_end |-> 4 * Scale,
      w_i |-> <<Scale, -2 * Scale>>,
      policy_X_i_vals |-> <<<<0, 0, 0, 0>>, <<Scale, 0, Scale, 0>>>>,
      W |-> [j \in 1..4 |-> [k \in 1..4 |-> IF j = k THEN Scale \div 2 ELSE 0]],
      model_predictive_control |-> mpc,
      alpha |-> ModelAlpha(2), X_i_vals |-> ModelBasis(2),
      sigma |-> Vec(Scale, Scale, Scale, Scale, Scale), out |-> Pending] :
        x_row \in InitialXs, steps \in 0..MaxSteps, linear \in BOOLEAN,
        p \in {<<Scale, -Scale, Scale \div 2, Scale \div 2>>,
              <<-2 * Scale, 0, 3 * Scale, Scale>>},
        mpc \in BOOLEAN}

\* lines 584-631: loss_after_steps runs
LossAfterSteps ==
    /\ roll.op = "loss_after_steps"
    /\ IsPending(roll.out)
    /\ roll' = [roll EXCEPT !.out = loss_after_steps(roll)]
    /\ UNCHANGED <<angleVars, cpVars, regVars>>

InitLoss ==
    /\ AngleIdle
    /\ CpConstructed
    /\ RegIdle
    /\ roll \in LossCalls

NextLoss == LossAfterSteps

SpecLoss == InitLoss /\ [][NextLoss]_vars

(***************************************************************************)
(* Properties of the angle normalizer                                      *)
(***************************************************************************)
MaxK == 2
Ks == -MaxK..MaxK

RemapLooping == remap_pc \in {"loop_up", "loop_down"}

OddMultipleOfPi(t) == t % TWO_PI = PI

OnlyZeroActions == \A i \in 1..Len(cp_actions) : cp_actions[i] = 0

\* C6: the down-hanging state is a fixed point: from the reset state
\* (0, 0, pi, 0), after any number of performAction(0) calls the state is
\* still (0, 0, pi, 0).
C6_DownStateIsFixedPoint ==
    (cp_start = DownState /\ OnlyZeroActions) => cp = DownState

\* at least two performAction(0) calls were made from the reset state
C6_Witness ==
    /\ cp_start = DownState
    /\ OnlyZeroActions
    /\ Len(cp_actions) >= 2

ThreeRadState == State(0, 0, 3 * Scale, 0)

OneZeroActionFromThreeRad ==
    /\ cp_start = ThreeRadState
    /\ cp_actions = <<0>>

\* C7 as stated: from (0, 0, 3.0, 0) one performAction(0) leaves
\* cart_location and cart_velocity exactly 0 while pole_angle and
\* pole_velocity change.
C7_CartStaysAtRest ==
    OneZeroActionFromThreeRad =>
        /\ cp.cart_location = 0
        /\ cp.cart_velocity = 0
        /\ cp.pole_angle # ThreeRadState.pole_angle
        /\ cp.pole_velocity # ThreeRadState.pole_velocity

\* C7 amended: from (0, 0, 3.0, 0) one performAction(0) changes all four
\* fields: the pole falls towards pi (pole_angle and pole_velocity grow) and
\* its weight pushes the cart (cart_velocity and cart_location become
\* positive).
C7_AllFourFieldsChange ==
    OneZeroActionFromThreeRad =>
        /\ cp.cart_location > 0
        /\ cp.cart_velocity > 0
        /\ cp.pole_angle > ThreeRadState.pole_angle
        /\ cp.pole_angle < PI
        /\ cp.pole_velocity > 0

\* one performAction(0) was made from (0, 0, 3.0, 0)
C7_Witness ==
    /\ OneZeroActionFromThreeRad
    /\ cp # ThreeRadState

\* C11: terminate, called on a constructed CartPole after any setState,
\* reset and performAction calls, returns a boolean without raising.
C11_TerminateReturnsBoolean ==
    cp_terminate # NotCalled =>
        /\ "raised" \notin DOMAIN cp_terminate
        /\ cp_terminate.ret \in BOOLEAN

\* a substep of performAction is made
SubstepMade == pa.pc = "loop" /\ pa'.pc = "loop" /\ pa'.step = pa.step + 1

\* C12: in every substep both accelerations come from the state of before
\* the substep; cart_velocity and pole_velocity move by dt times them, then
\* pole_angle moves by dt times the new pole_velocity and cart_location by
\* dt times the new cart_velocity, dt being delta_time / sim_steps; a call
\* makes sim_steps substeps.
C12_SemiImplicitEulerOrder ==
    [][/\ SubstepMade =>
            /\ cp'.cart_velocity = cp.cart_velocity
                  + FMul(FDiv(delta_time, Fix(sim_steps)),
                         CartAccel(cp, pa.force, Sin(cp.pole_angle), Cos(cp.pole_angle),
                                   MassTerm(Cos(cp.pole_angle))))
            /\ cp'.pole_velocity = cp.pole_velocity
                  + FMul(FDiv(delta_time, Fix(sim_steps)),
                         PoleAccel(cp, pa.force, Sin(cp.pole_angle), Cos(cp.pole_angle),
                                   MassTerm(Cos(cp.pole_angle))))
            /\ cp'.pole_angle = cp.pole_angle
                  + FMul(FDiv(delta_time, Fix(sim_steps)), cp'.pole_velocity)
            /\ cp'.cart_location = cp.cart_location
                  + FMul(FDiv(delta_time, Fix(sim_steps)), cp'.cart_velocity)
       /\ (pa.pc = "loop" /\ pa' = NoCall) => pa.step = sim_steps]_vars

\* a call from a moving state has made all its substeps, and the last of
\* them moved the cart and the pole
C12_Witness ==
    /\ pa.pc = "loop"
    /\ pa.step = sim_steps
    /\ pa.force # 0
    /\ cp_start.cart_velocity # 0
    /\ cp_start.pole_velocity # 0
    /\ cp.cart_location # cp_start.cart_location
    /\ cp.pole_angle # cp_start.pole_angle

(***************************************************************************)
(* Properties of the kernel regression                                     *)
(***************************************************************************)
KernelRan == reg.op = "kernel" /\ ~IsPending(reg.out)
PredictRan == reg.op = "predict" /\ ~IsPending(reg.out)
TrainRan == reg.op = "train_alpha" /\ ~IsPending(reg.out)

\* X and X_dash agree but for the angle, which is a whole turn apart
WholeTurnApart(X, X_dash) ==
    /\ \A i \in 1..XDim : i # AngleIndex => X[i] = X_dash[i]
    /\ Abs(X[AngleIndex] - X_dash[AngleIndex]) = TWO_PI

\* the number of query points of x_test
Queries(x_test) == IF x_test.ndim = 1 THEN 1 ELSE Len(x_test.v)

\* the number of rows of an array, a scalar or a 1-D array being one row
Rows(a) == IF a.ndim = 2 THEN Len(a.v) ELSE 1

\* C1: every call of predict, for a single 5-vector and for a batch of M
\* rows, ends without an exception, with a kernel matrix of one row per
\* basis point and a result of one row per query point.
C1_PredictAcceptsSingleAndBatch ==
    PredictRan =>
        /\ ~IsRaised(reg.out)
        /\ ~IsRaised(reg.KnM_test)
        /\ Rows(reg.KnM_test) = Len(reg.X_i_vals)
        /\ Rows(reg.out) = Queries(reg.x_test)

C9_ZeroSigmaRejected ==
    ((KernelRan \/ TrainRan) /\ HasZero(reg.sigma)) => IsRaised(reg.out)

(***************************************************************************)
(* Properties of the rollouts                                              *)
(***************************************************************************)
MoveCartRan == roll.op = "move_cart" /\ ~IsPending(roll.out)
ProjectRan == roll.op = "project_x_using_model" /\ ~IsPending(roll.out)

\* the first row of a history, as a 1-D array
FirstRow(a) == Arr1(AtLeast2d(a)[1])

\* C2: for every steps >= 1, project_x_using_model returns a
\* prediction_history and a y_history of steps+1 rows each, both with
\* initial_x as their first row.
C2_ProjectionHasStepsPlusOneRows ==
    (ProjectRan /\ roll.steps >= 1) =>
        /\ ~IsRaised(roll.out)
        /\ roll.out.prediction_history.ndim = 2
        /\ roll.out.y_history.ndim = 2
        /\ Len(roll.out.prediction_history.v) = roll.steps + 1
        /\ Len(roll.out.y_history.v) = roll.steps + 1
        /\ FirstRow(roll.out.prediction_history) = Arr1(roll.initial_x)
        /\ FirstRow(roll.out.y_history) = Arr1(roll.initial_x)

\* a compound rollout of MaxSteps steps has returned, and its predictions
\* differ from what the cart did
C2_Witness ==
    /\ ProjectRan
    /\ roll.steps = MaxSteps
    /\ roll.compound_predictions
    /\ ~IsRaised(roll.out)
    /\ Len(roll.out.prediction_history.v) = MaxSteps + 1
    /\ Len(roll.out.y_history.v) = MaxSteps + 1
    /\ roll.out.prediction_history.v[1] = roll.initial_x
    /\ roll.out.prediction_history.v[MaxSteps + 1] # roll.out.y_history.v[MaxSteps + 1]
    /\ roll.out.y_history.v[2] # roll.initial_x

\* C3: a rollout of 0 steps, by move_cart or by project_x_using_model,
\* ends without an exception and returns initial_x alone.
C3_ZeroStepsReturnsInitial ==
    ((MoveCartRan \/ ProjectRan) /\ roll.steps = 0
        /\ (roll.op = "move_cart" => ~roll.noisy_dynamics)) =>
        /\ ~IsRaised(roll.out)
        /\ roll.op = "move_cart" => roll.out.ret = Arr1(roll.initial_x)
        /\ roll.op = "project_x_using_model" =>
               /\ AtLeast2d(roll.out.prediction_history) = <<roll.initial_x>>
               /\ AtLeast2d(roll.out.y_history) = <<roll.initial_x>>

\* C10: for every number of steps, move_cart returns x_history, the rows
\* recorded pass by pass, initial_x first.
C10_MoveCartReturnsHistory ==
    (MoveCartRan /\ (roll.noisy_dynamics => roll.has_noise_function /\ roll.has_var)) =>
        /\ ~IsRaised(roll.out)
        /\ roll.out.ret = roll.out.x_history
        /\ Len(roll.out.x_history.v) = roll.steps + 1

\* x plus the model's delta at x, as a row
PredictedRow(x) == AtLeast2d(Predicted(Arr1(x), roll))[1]

\* C13: the first prediction is initial_x plus the model's delta at
\* initial_x; the prediction of every later step k is, with
\* compound_predictions, the previous prediction plus the model's delta
\* there, and without it the cart's true state before step k plus the
\* model's delta there.
C13_PredictionsChainOrFollowTruth ==
    (ProjectRan /\ ~IsRaised(roll.out)) =>
        /\ roll.out.prediction_history.v[2] = PredictedRow(roll.initial_x)
        /\ \A k \in 2..roll.steps :
              roll.out.prediction_history.v[k + 1] =
                 IF roll.compound_predictions
                 THEN PredictedRow(roll.out.prediction_history.v[k])
                 ELSE PredictedRow(roll.out.y_history.v[k])

\* rollouts of MaxSteps steps have returned in which chaining and following
\* the truth give different predictions
C13_Witness ==
    /\ ProjectRan
    /\ ~IsRaised(roll.out)
    /\ roll.steps = MaxSteps
    /\ ~roll.compound_predictions
    /\ roll.out.prediction_history.v[MaxSteps + 1] =
          PredictedRow(roll.out.y_history.v[MaxSteps])
    /\ roll.out.prediction_history.v[MaxSteps + 1] #
          PredictedRow(roll.out.prediction_history.v[MaxSteps])

\* C14: whatever n and train_proportion are, every index train_alpha draws
\* is a row number of x_train, the call does not fail on an index, and the
\* basis points returned are the no_RBC rows of x_train at the drawn indices.
C14_BasisDrawnFromTrainingSet ==
    (TrainRan /\ ~HasZero(reg.sigma)) =>
        /\ \A j \in 1..Len(reg.M_vals) : reg.M_vals[j] \in 0..(Len(reg.x_train) - 1)
        /\ ~IsRaised(reg.out)
        /\ Len(reg.out.X_i_vals) = reg.no_RBC
        /\ \A j \in 1..reg.no_RBC :
              reg.out.X_i_vals[j] = reg.x_train[reg.M_vals[j] + 1]

(***************************************************************************)
(* Properties of loss_after_steps                                          *)
(***************************************************************************)
LossRan == roll.op = "loss_after_steps" /\ ~IsPending(roll.out)

\* the state before the i-th pass: the start's, then the previous pass's y_
StateBeforePass(i) ==
    IF i = 1 THEN ButLast(LossStart(roll.x_row).v)
    ELSE FirstFour(Flatten(roll.out.passes[i - 1].y_))

\* C15: loss_after_steps makes exactly steps passes, with the cart and
\* with the kernel model, with the linear and with the non-linear policy;
\* each pass has the policy choose the action from the current state, hands
\* that state and action to the cart or the model, and adds the loss of the
\* state that comes back; the result is the sum of those losses.
C15_LossSumsStepsPasses ==
    LossRan =>
        /\ ~IsRaised(roll.out)
        /\ Len(roll.out.passes) = roll.steps
        /\ roll.out.cumulative_loss =
              SumFrom([i \in 1..Len(roll.out.passes) |-> roll.out.passes[i].loss_], 1)
        /\ \A i \in 1..Len(roll.out.passes) :
              /\ roll.out.passes[i].seen = StateBeforePass(i)
              /\ Flatten(roll.out.passes[i].x_) =
                    Append(StateBeforePass(i), roll.out.passes[i].action_)

====
